---- MODULE Spec2Model ----
(***************************************************************************)
(* Model of examples/colossal_cifar_demo.ipynb: a notebook that installs   *)
(* the framework, initialises a one-process distributed context, builds    *)
(* the CIFAR10 loaders, a small CNN, an Engine and a Trainer, and calls    *)
(* trainer.fit.  The statements of the notebook are the steps of the       *)
(* machine; the behaviour of the library calls is modelled from the        *)
(* arguments the notebook passes and from the output the notebook records. *)
(***************************************************************************)
EXTENDS Integers, Sequences, FiniteSets, TLC

(* ---- literal configuration of the notebook ---- *)

num_epochs_eleven == 10 + 1

num_epochs == 10

test_interval_two == 1 + 1

test_interval == 1

batch_size == 128

world_size_two == 1 + 1

world_size == 1

local_rank == 0

\* parallel_cfg = Config(dict(parallel=dict(data=.., pipeline=.., tensor=..)))
parallel_cfg == [data |-> 1, pipeline |-> 1, tensor |-> 1]

\* CIFAR10Dataset(train=True) / CIFAR10Dataset(train=False)
TrainSetSize == 50000
TestSetSize == 10000

\* store_based_barrier_key:1 .. store_based_barrier_key:3
NumBarriers == 3

\* hooks_cfg of the Trainer
hooks_cfg == {"LossHook", "LogMetricByEpochHook", "AccuracyHook"}

\* the three lines the import cell prints when apex is not installed
ApexNotices ==
  {"Please install apex to use FP16 Optimizer",
   "Apex should be installed to use the FP16 optimizer",
   "apex is required for mixed precision training"}

(* ---- the script ---- *)

StepOrderSwapped ==
  <<"pip_install", "imports", "data", "init_dist", "model", "trainer",
    "engine", "fit">>

\* the statements of the notebook, in cell order
StepOrder ==
  <<"pip_install", "imports", "init_dist", "data", "model", "engine",
    "trainer", "fit">>

Steps == {StepOrder[i] : i \in DOMAIN StepOrder}

IndexOf(s) == CHOOSE i \in DOMAIN StepOrder : StepOrder[i] = s

NextStep(s) ==
  IF IndexOf(s) < Len(StepOrder) THEN StepOrder[IndexOf(s) + 1] ELSE "done"

\* "!pip install" is a shell escape: its exit status raises nothing in the
\* kernel.  Every other step is a Python statement and can raise.
RaisingSteps == Steps \ {"pip_install"}

\* objects a step binds in the kernel's namespace
Builds(s) ==
  CASE s = "data" -> {"trainset", "trainloader", "testset", "testloader"}
    [] s = "model" -> {"model"}
    [] s = "engine" -> {"engine"}
    [] s = "trainer" -> {"trainer"}
    [] OTHER -> {}

UncaughtSwallowed(s) == NextStep(s)

\* no cell has a try/except: an exception ends the run
Uncaught(s) == "error"

ImportsOkNeedsApex(inst, apx) == inst /\ apx

\* the import cell succeeds when the packages are importable; without apex
\* the framework prints its notices and the import still completes
ImportsOk(inst, apx) == inst

NumBatchesDropLast(n, b) == n \div b

\* len(DataLoader(dataset, batch_size=b)) with the default drop_last=False
NumBatches(n, b) == (n + b - 1) \div b

\* fit evaluates when a test loader is given and the epoch is a multiple of
\* test_interval
ShouldTest(epoch) == epoch % test_interval = 0

MetricsAccuracyInTrain(mode) == {"Loss", "Accuracy"}

\* metrics the LogMetricByEpochHook line of a mode reports
Metrics(mode) ==
  IF mode = "Training"
    THEN (IF "LossHook" \in hooks_cfg THEN {"Loss"} ELSE {})
    ELSE (IF "LossHook" \in hooks_cfg THEN {"Loss"} ELSE {}) \cup
         (IF "AccuracyHook" \in hooks_cfg THEN {"Accuracy"} ELSE {})

VARIABLES
  pc,          \* statement to execute next, or "done" / "error"
  sub,         \* position inside init_dist or trainer.fit
  apex,        \* environment: apex is installed
  installed,   \* ColossalAI and torch are importable
  attempts,    \* how many times each statement has been started
  failedStep,  \* statement that raised, or "none"
  notices,     \* lines printed by the import cell
  gpc,         \* the global parallel context set up by init_dist
  store,       \* rendezvous store: arrivals per barrier key
  key,         \* barrier key in progress
  barriers,    \* completed barriers, in order
  objs,        \* objects bound so far
  epoch,       \* epoch of the pass in progress
  n,           \* progress-bar counter of the pass in progress
  bars,        \* completed progress bars, in order
  logs         \* LogMetricByEpochHook lines, in order

vars ==
  <<pc, sub, apex, installed, attempts, failedStep, notices, gpc, store, key,
    barriers, objs, epoch, n, bars, logs>>

distVars == <<gpc, store, key, barriers>>
fitVars == <<epoch, n, bars, logs>>

Uninitialized ==
  [initialized |-> FALSE, world_size |-> 0, local_rank |-> 0, data |-> 0,
   pipeline |-> 0, tensor |-> 0]

Init ==
  /\ pc = StepOrder[1]
  /\ sub = "start"
  /\ apex \in BOOLEAN
  /\ installed = FALSE
  /\ attempts = [s \in Steps |-> 0]
  /\ failedStep = "none"
  /\ notices = {}
  /\ gpc = Uninitialized
  /\ store = [k \in 1..NumBarriers |-> 0]
  /\ key = 0
  /\ barriers = <<>>
  /\ objs = {}
  /\ epoch = 0
  /\ n = 0
  /\ bars = <<>>
  /\ logs = <<>>

Started(s) == attempts' = [attempts EXCEPT ![s] = @ + 1]

\* !pip install ColossalAI deepspeed
PipInstall ==
  /\ pc = "pip_install"
  /\ Started("pip_install")
  /\ \E ok \in BOOLEAN : installed' = ok
  /\ pc' = NextStep("pip_install")
  /\ UNCHANGED <<sub, apex, failedStep, notices, objs>>
  /\ UNCHANGED distVars
  /\ UNCHANGED fitVars

\* import colossalai ...; import torch
Imports ==
  /\ pc = "imports"
  /\ Started("imports")
  /\ IF ImportsOk(installed, apex)
       THEN /\ notices' = IF apex THEN {} ELSE ApexNotices
            /\ pc' = NextStep("imports")
            /\ failedStep' = failedStep
       ELSE /\ notices' = notices
            /\ pc' = Uncaught("imports")
            /\ failedStep' = "imports"
  /\ UNCHANGED <<sub, apex, installed, objs>>
  /\ UNCHANGED distVars
  /\ UNCHANGED fitVars

\* colossalai.init_dist(config=parallel_cfg, local_rank=0, world_size=1, ...)
InitDistStart ==
  /\ pc = "init_dist"
  /\ sub = "start"
  /\ Started("init_dist")
  /\ gpc' = [initialized |-> TRUE, world_size |-> world_size,
             local_rank |-> local_rank, data |-> parallel_cfg.data,
             pipeline |-> parallel_cfg.pipeline,
             tensor |-> parallel_cfg.tensor]
  /\ key' = 1
  /\ sub' = "add"
  /\ UNCHANGED <<pc, apex, installed, failedStep, notices, store, barriers,
                 objs>>
  /\ UNCHANGED fitVars

\* "Added key: store_based_barrier_key:k to store for rank: r"
BarrierAdd ==
  /\ pc = "init_dist"
  /\ sub = "add"
  /\ store' = [store EXCEPT ![key] = @ + 1]
  /\ sub' = "wait"
  /\ UNCHANGED <<pc, apex, installed, attempts, failedStep, notices, gpc, key,
                 barriers, objs>>
  /\ UNCHANGED fitVars

\* "Rank r: Completed store-based barrier for N nodes."
BarrierComplete ==
  /\ pc = "init_dist"
  /\ sub = "wait"
  /\ store[key] = gpc.world_size
  /\ barriers' = Append(barriers, [key |-> key, rank |-> gpc.local_rank,
                                   nodes |-> store[key]])
  /\ IF key < NumBarriers
       THEN /\ key' = key + 1
            /\ sub' = "add"
       ELSE /\ key' = key
            /\ sub' = "bind"
  /\ UNCHANGED <<pc, apex, installed, attempts, failedStep, notices, gpc,
                 store, objs>>
  /\ UNCHANGED fitVars

\* "process rank 0 is bound to device 0", seeds; init_dist returns
InitDistFinish ==
  /\ pc = "init_dist"
  /\ sub = "bind"
  /\ objs' = objs \cup {"dist"}
  /\ pc' = NextStep("init_dist")
  /\ sub' = "start"
  /\ UNCHANGED <<apex, installed, attempts, failedStep, notices>>
  /\ UNCHANGED distVars
  /\ UNCHANGED fitVars

\* dataset and loaders; Net().cuda(); Engine(...); Trainer(...)
Build(s) ==
  /\ pc = s
  /\ s \in {"data", "model", "engine", "trainer"}
  /\ Started(s)
  /\ objs' = objs \cup Builds(s)
  /\ pc' = NextStep(s)
  /\ UNCHANGED <<sub, apex, installed, failedStep, notices>>
  /\ UNCHANGED distVars
  /\ UNCHANGED fitVars

\* end of the loop body for one epoch: next epoch or return from fit
AfterEpoch(e) ==
  IF e + 1 < num_epochs
    THEN /\ epoch' = e + 1
         /\ n' = 0
         /\ sub' = "train"
         /\ pc' = pc
    ELSE /\ epoch' = e
         /\ n' = n
         /\ sub' = "start"
         /\ pc' = NextStep("fit")

\* trainer.fit(train_dataloader, test_dataloader, max_epochs=num_epochs,
\*             display_progress=True, test_interval=test_interval)
FitStart ==
  /\ pc = "fit"
  /\ sub = "start"
  /\ Started("fit")
  /\ IF 0 < num_epochs
       THEN /\ epoch' = 0
            /\ n' = 0
            /\ sub' = "train"
            /\ pc' = pc
       ELSE /\ pc' = NextStep("fit")
            /\ UNCHANGED <<epoch, n, sub>>
  /\ UNCHANGED <<apex, installed, failedStep, notices, objs, bars, logs>>
  /\ UNCHANGED distVars

\* one training iteration: the "[Epoch e train]" bar advances by one
TrainIter ==
  /\ pc = "fit"
  /\ sub = "train"
  /\ n < NumBatches(TrainSetSize, batch_size)
  /\ n' = n + 1
  /\ UNCHANGED <<pc, sub, apex, installed, attempts, failedStep, notices,
                 objs, epoch, bars, logs>>
  /\ UNCHANGED distVars

\* the training loader is exhausted: bar at 100%, "Training - Epoch e+1" line
TrainEpochEnd ==
  /\ pc = "fit"
  /\ sub = "train"
  /\ n = NumBatches(TrainSetSize, batch_size)
  /\ bars' = Append(bars, [mode |-> "train", epoch |-> epoch, n |-> n,
                           total |-> NumBatches(TrainSetSize, batch_size)])
  /\ logs' = Append(logs, [mode |-> "Training", epoch |-> epoch + 1,
                           metrics |-> Metrics("Training")])
  /\ IF ShouldTest(epoch)
       THEN /\ sub' = "eval"
            /\ n' = 0
            /\ UNCHANGED <<pc, epoch>>
       ELSE AfterEpoch(epoch)
  /\ UNCHANGED <<apex, installed, attempts, failedStep, notices, objs>>
  /\ UNCHANGED distVars

\* one evaluation iteration: the "[Epoch e val]" bar advances by one
EvalIter ==
  /\ pc = "fit"
  /\ sub = "eval"
  /\ n < NumBatches(TestSetSize, batch_size)
  /\ n' = n + 1
  /\ UNCHANGED <<pc, sub, apex, installed, attempts, failedStep, notices,
                 objs, epoch, bars, logs>>
  /\ UNCHANGED distVars

\* the test loader is exhausted: bar at 100%, "Testing - Epoch e+1" line
EvalEnd ==
  /\ pc = "fit"
  /\ sub = "eval"
  /\ n = NumBatches(TestSetSize, batch_size)
  /\ bars' = Append(bars, [mode |-> "val", epoch |-> epoch, n |-> n,
                           total |-> NumBatches(TestSetSize, batch_size)])
  /\ logs' = Append(logs, [mode |-> "Testing", epoch |-> epoch + 1,
                           metrics |-> Metrics("Testing")])
  /\ AfterEpoch(epoch)
  /\ UNCHANGED <<apex, installed, attempts, failedStep, notices, objs>>
  /\ UNCHANGED distVars

\* a library call raises (no process group, download error, no GPU, ...);
\* the import cell raises exactly when the packages are not importable
Raise(s) ==
  /\ pc = s
  /\ s \in RaisingSteps \ {"imports"}
  /\ attempts' = IF sub = "start" THEN [attempts EXCEPT ![s] = @ + 1]
                 ELSE attempts
  /\ failedStep' = s
  /\ pc' = Uncaught(s)
  /\ sub' = "start"
  /\ UNCHANGED <<apex, installed, notices, objs>>
  /\ UNCHANGED distVars
  /\ UNCHANGED fitVars

Next ==
  \/ PipInstall
  \/ Imports
  \/ InitDistStart
  \/ BarrierAdd
  \/ BarrierComplete
  \/ InitDistFinish
  \/ \E s \in Steps : Build(s)
  \/ FitStart
  \/ TrainIter
  \/ TrainEpochEnd
  \/ EvalIter
  \/ EvalEnd
  \/ \E s \in Steps : Raise(s)

Spec == Init /\ [][Next]_vars

\* the kernel runs the cells to the end: a statement that can run does run
FairSpec == Spec /\ WF_vars(Next)

(* ---- properties ---- *)

IsTrainBar(b) == b.mode = "train"

TrainBars == SelectSeq(bars, IsTrainBar)

Terminated == pc \in {"done", "error"}

FitRunning(m) == pc = "fit" /\ sub = m

RunOrder ==
  <<"pip_install", "imports", "init_dist", "data", "model", "engine",
    "trainer", "fit">>

LaterSteps(s) ==
  {RunOrder[j] : j \in {i \in DOMAIN RunOrder :
                          \E k \in DOMAIN RunOrder : k < i /\ RunOrder[k] = s}}

TrainingEpochs ==
  /\ Len(TrainBars) <= 10
  /\ \A i \in 1..Len(TrainBars) : TrainBars[i].epoch = i - 1
  /\ FitRunning("train") => (epoch \in 0..9 /\ epoch = Len(TrainBars))
  /\ FitRunning("eval") => (epoch \in 0..9 /\ epoch + 1 = Len(TrainBars))
  /\ pc = "done" => Len(TrainBars) = 10

\* C1: trainer.fit with max_epochs = 10 runs training epochs 0..9, each once
\* and in increasing order, never starts an 11th, returns only after epoch 9
\* has completed, and the run terminates.
C1_TenEpochsThenStop == []TrainingEpochs /\ <>Terminated

C1_Witness == pc = "done" /\ Len(TrainBars) = 10 /\ TrainBars[10].epoch = 9

\* C2: with test_interval = 1 training and evaluation passes alternate:
\* train k, val k, train k+1, ...; the evaluation of epoch k runs after
\* training epoch k has finished and before training epoch k+1 starts, and the
\* run ends with the evaluation of epoch 9.
C2_TrainEvalAlternate ==
  /\ Len(bars) <= 20
  /\ \A i \in 1..Len(bars) :
       /\ bars[i].epoch = (i - 1) \div 2
       /\ bars[i].mode = IF i % 2 = 1 THEN "train" ELSE "val"
  /\ FitRunning("train") => Len(bars) = 2 * epoch
  /\ FitRunning("eval") => Len(bars) = 2 * epoch + 1
  /\ pc = "done" =>
       /\ Len(bars) = 20
       /\ bars[20].mode = "val"
       /\ bars[20].epoch = 9

C2_Witness == pc = "done" /\ Len(bars) = 20 /\ bars[19].mode = "train"

Ranks == IF gpc.initialized THEN 0..(gpc.world_size - 1) ELSE {}

\* C3: the run is a single process: world_size 1, local_rank 0 < world_size,
\* data, pipeline and tensor sizes 1 with product world_size; the only rank
\* is rank 0 and every barrier completes with 1 participant.
C3_SingleProcess ==
  /\ gpc.initialized =>
       /\ gpc.world_size = 1
       /\ gpc.local_rank = 0
       /\ gpc.local_rank < gpc.world_size
       /\ gpc.data = 1 /\ gpc.pipeline = 1 /\ gpc.tensor = 1
       /\ gpc.data * gpc.pipeline * gpc.tensor = gpc.world_size
       /\ Ranks = {0}
  /\ \A i \in 1..Len(barriers) :
       /\ barriers[i].nodes = 1
       /\ barriers[i].rank = 0
       /\ barriers[i].key = i
  /\ "dist" \in objs => (gpc.initialized /\ Len(barriers) = 3)

C3_Witness == "dist" \in objs /\ Len(barriers) = 3 /\ Ranks = {0}

\* C4: the statements run in one fixed order, none repeated: init_dist has
\* completed before any dataset, model, Engine or Trainer is built, the
\* Engine exists before the Trainer, and trainer.fit starts after all of them.
C4_LinearScript ==
  /\ \A s \in DOMAIN attempts : attempts[s] <= 1
  /\ \A i \in 1..(Len(RunOrder) - 1) :
       attempts[RunOrder[i + 1]] > 0 => attempts[RunOrder[i]] > 0
  /\ objs \ {"dist"} # {} => "dist" \in objs
  /\ "trainer" \in objs => "engine" \in objs
  /\ "engine" \in objs => "model" \in objs
  /\ attempts["fit"] > 0 =>
       {"dist", "trainset", "trainloader", "testset", "testloader", "model",
        "engine", "trainer"} \subseteq objs

C4_Witness == attempts["fit"] = 1 /\ FitRunning("train") /\ "trainer" \in objs

\* C5: a step that raises is not caught: the run is in the error state, the
\* step was started once (no retry), and no later step has been started.
C5_FailurePropagates ==
  /\ \A s \in DOMAIN attempts : attempts[s] <= 1
  /\ (pc = "error") <=> (failedStep # "none")
  /\ failedStep # "none" =>
       /\ failedStep \in {"imports", "init_dist", "data", "model", "engine",
                          "trainer", "fit"}
       /\ attempts[failedStep] = 1
       /\ \A t \in LaterSteps(failedStep) : attempts[t] = 0
       /\ Builds(failedStep) \cap objs = {}

C5_Witness == pc = "error" /\ failedStep = "data" /\ attempts["model"] = 0

\* C6 as stated: when apex is absent the import step ends in an error state
\* and the later steps do not run.
C6_ApexAbsentFails ==
  (~apex /\ attempts["imports"] > 0) =>
    /\ pc = "error"
    /\ failedStep = "imports"
    /\ \A t \in LaterSteps("imports") : attempts[t] = 0

\* C6 amended: when apex is absent and the packages are importable, the import
\* step prints the three apex notices and completes; it raises only when the
\* packages are not importable, whatever the state of apex.
C6_ApexAbsentIsNoFailure ==
  /\ (~apex /\ installed /\ attempts["imports"] > 0) =>
       /\ notices = ApexNotices
       /\ failedStep # "imports"
  /\ failedStep = "imports" => ~installed
  /\ apex => notices = {}

C6_Witness == ~apex /\ pc = "done" /\ notices = ApexNotices

LineOf(m, k) == CHOOSE i \in 1..Len(logs) : logs[i].mode = m /\ logs[i].epoch = k

HasLine(m, k) == \E i \in 1..Len(logs) : logs[i].mode = m /\ logs[i].epoch = k

\* C7 as stated: the training line and the testing line of every epoch both
\* report a Loss value and an Accuracy value.
C7_BothLinesLossAndAccuracy ==
  \A i \in 1..Len(logs) : {"Loss", "Accuracy"} \subseteq logs[i].metrics

\* C7 amended: for every epoch k in 1..10 the training line reports Loss
\* only, and the testing line reports Loss and Accuracy.
C7_LossInBothAccuracyInTesting ==
  /\ \A i \in 1..Len(logs) :
       /\ logs[i].mode = "Training" => logs[i].metrics = {"Loss"}
       /\ logs[i].mode = "Testing" => logs[i].metrics = {"Loss", "Accuracy"}
  /\ pc = "done" =>
       /\ Len(logs) = 20
       /\ \A k \in 1..10 : HasLine("Training", k) /\ HasLine("Testing", k)

C7_Witness ==
  /\ pc = "done"
  /\ logs[LineOf("Training", 10)].metrics = {"Loss"}
  /\ logs[LineOf("Testing", 10)].metrics = {"Loss", "Accuracy"}

\* C8: every training epoch has 391 = ceil(50000/128) steps and every
\* evaluation pass 79 = ceil(10000/128); a bar is reported complete only
\* with its counter equal to its total.
C8_StepsPerPass ==
  /\ \A i \in 1..Len(bars) :
       /\ bars[i].n = bars[i].total
       /\ bars[i].mode = "train" => bars[i].total = 391
       /\ bars[i].mode = "val" => bars[i].total = 79
  /\ FitRunning("train") => n <= 391
  /\ FitRunning("eval") => n <= 79
  /\ 390 * 128 < 50000 /\ 50000 <= 391 * 128
  /\ 78 * 128 < 10000 /\ 10000 <= 79 * 128

C8_Witness ==
  /\ pc = "done"
  /\ \A i \in 1..20 : bars[i].n = IF i % 2 = 1 THEN 391 ELSE 79

====
